---- MODULE Spec2Model ----
(***************************************************************************)
(* Image-Stagno: LSB steganography with per-payload AES encryption.        *)
(*                                                                         *)
(*   src/unnamed/part_000        the Encode component (encodeImageMessage, *)
(*                               encryptData, handleSubmit, form handlers) *)
(*   src/components/Decode.tsx   the Decode component (decryptData,        *)
(*                               decodeImageMessage, handleSubmit)         *)
(*                                                                         *)
(* Strings are sequences of character codes; a nullable JavaScript value   *)
(* is None (<<>>) or Some(v) (<<v>>); an ImageData buffer is a sequence   *)
(* of bytes R,G,B,A per pixel (index i of the code is index i+1 here).     *)
(***************************************************************************)
EXTENDS Integers, Sequences, FiniteSets, TLC

None == <<>>
Some(v) == <<v>>

(***************************************************************************)
(* Bounds of the model.                                                    *)
(***************************************************************************)
\* pixels of a carrier large enough for every frame the encoder builds
BigPixels == 19
\* pixels of a carrier too small for any frame with content
SmallPixels == 4

(***************************************************************************)
(* String constants of the two components.                                 *)
(***************************************************************************)
\* "||"
DELIMITER == <<124, 124>>
\* "No hidden data found"
NoHiddenDataText ==
  <<78, 111, 32, 104, 105, 100, 100, 101, 110, 32, 100, 97, 116, 97, 32, 102, 111, 117, 110, 100>>
\* "Error: Wrong decryption key"
WrongKeyText ==
  <<69, 114, 114, 111, 114, 58, 32, 87, 114, 111, 110, 103, 32, 100, 101, 99, 114, 121, 112,
    116, 105, 111, 110, 32, 107, 101, 121>>
\* "data:image/"
DataImagePrefix == <<100, 97, 116, 97, 58, 105, 109, 97, 103, 101, 47>>
\* ";base64,"
Base64Marker == <<59, 98, 97, 115, 101, 54, 52, 44>>
\* the alternatives (png|jpeg|jpg) of base64ImageRegex
RegexSubtypes == {<<112, 110, 103>>, <<106, 112, 101, 103>>, <<106, 112, 103>>}
\* the class [\w+\/=] of base64ImageRegex: A-Z a-z 0-9 _ + / =
RegexBodyChars == (65..90) \cup (97..122) \cup (48..57) \cup {95, 43, 47, 61}
\* the characters String.prototype.trim removes (those below 256)
WhiteSpace == {9, 10, 11, 12, 13, 32, 160}

(***************************************************************************)
(* Inputs: texts, nested images, keys.                                     *)
(***************************************************************************)
\* "hello"
TextHello == <<104, 101, 108, 108, 111>>
\* " hi " (surrounded by blanks)
TextPadded == <<32, 104, 105, 32>>
\* "a||b" (contains the delimiter)
TextDelim == <<97, 124, 124, 98>>

\* "data:image/png;base64,iVBO": FileReader.readAsDataURL of a PNG
HiddenPng == DataImagePrefix \o <<112, 110, 103>> \o Base64Marker \o <<105, 86, 66, 79>>
\* what a user can type into a text area; the last is text that reads as a data URL
Texts == {TextHello, TextPadded, TextDelim, HiddenPng}
\* "data:image/gif;base64,R0lG": the file inputs accept image/*, so a GIF too
HiddenGif == DataImagePrefix \o <<103, 105, 102>> \o Base64Marker \o <<82, 48, 108, 71>>
HiddenImages == {HiddenPng, HiddenGif}
\* "data:image/jpeg;base64,/9j/"
HiddenJpeg == DataImagePrefix \o <<106, 112, 101, 103>> \o Base64Marker \o <<47, 57, 106, 47>>

Keys == {"secret", "wrong"}

(***************************************************************************)
(* String helpers (JavaScript String methods).                             *)
(***************************************************************************)
startsWith(s, p) == Len(s) >= Len(p) /\ SubSeq(s, 1, Len(p)) = p

RECURSIVE trimStart(_)
trimStart(s) == IF s # <<>> /\ Head(s) \in WhiteSpace THEN trimStart(Tail(s)) ELSE s

RECURSIVE trimEnd(_)
trimEnd(s) ==
  IF s # <<>> /\ s[Len(s)] \in WhiteSpace THEN trimEnd(SubSeq(s, 1, Len(s) - 1)) ELSE s

trim(s) == trimEnd(trimStart(s))

\* String.prototype.split(DELIMITER): cur is the part being read
RECURSIVE splitFrom(_, _)
splitFrom(s, cur) ==
  IF s = <<>> THEN <<cur>>
  ELSE IF startsWith(s, DELIMITER)
       THEN <<cur>> \o splitFrom(SubSeq(s, Len(DELIMITER) + 1, Len(s)), <<>>)
       ELSE splitFrom(Tail(s), Append(cur, Head(s)))

split(s) == splitFrom(s, <<>>)

\* base64ImageRegex.test(s): /^data:image\/(png|jpeg|jpg);base64,[\w+\/=]+$/
base64ImageRegex(s) ==
  \E sub \in RegexSubtypes :
    LET head == DataImagePrefix \o sub \o Base64Marker
    IN  /\ startsWith(s, head)
        /\ Len(s) > Len(head)
        /\ \A k \in (Len(head) + 1)..Len(s) : s[k] \in RegexBodyChars

(***************************************************************************)
(* The cipher: CryptoJS.AES in passphrase mode (an external library).      *)
(* A ciphertext is a base64 string, here two base64 characters: the first  *)
(* names the plaintext, the second the passphrase. Decrypting under any    *)
(* other passphrase gives what unauthenticated AES-CBC gives: the lenient  *)
(* PKCS#7 unpadding leaves nothing or the bytes are not UTF-8 ("fail"), or *)
(* a few bytes that happen to be UTF-8 are left ("garbage").               *)
(* E.g. U2FsdGVkX18BAgMEBQYHCN4vTQH4jGLp+Wak1VrMt48= is "hello" under      *)
(* "secret"; under "wrong126" it decrypts to the one character "/".        *)
(***************************************************************************)
Plaintexts == <<TextHello, TextPadded, TextDelim, HiddenPng, HiddenGif, HiddenJpeg>>
KeyNames == <<"secret", "wrong">>
PlainIndex(pt) == CHOOSE k \in DOMAIN Plaintexts : Plaintexts[k] = pt
\* any other passphrase has index 0
KeyIndex(key) ==
  IF \E k \in DOMAIN KeyNames : KeyNames[k] = key
  THEN CHOOSE k \in DOMAIN KeyNames : KeyNames[k] = key
  ELSE 0
\* 'A' + k - 1 and 'a' + k - 1
PlainCode(k) == 64 + k
KeyCode(k) == 96 + k
\* "/"
Garbage == <<47>>
WrongKeyOutcomes == {"fail", "garbage"}

\* JavaScript truthiness of a (string | null) slot holding a text or data URL
truthy(slot) == slot # None /\ slot[1] # <<>>
\* a key test that lets every slot through
truthyKeyAny(slot) == TRUE

\* JavaScript truthiness of a (string | null) slot holding a key: !key in
\* encryptData, and key !== null && key !== "" in handleSubmit
truthyKey(slot) == slot # None /\ slot[1] # ""

\* a slip: the payload is framed as it is, not encrypted
AESencryptPlain(data, key) == data

\* CryptoJS.AES.encrypt(data, key).toString(): base64 (Salted__ + salt + blocks)
AESencrypt(data, key) == <<PlainCode(PlainIndex(data)), KeyCode(KeyIndex(key))>>

\* CryptoJS.AES.decrypt(part, key).toString(Utf8); "" stands for both the
\* empty result and the Malformed UTF-8 exception (decryptData treats them alike)
AESdecrypt(part, key, g) ==
  IF /\ Len(part) = 2
     /\ part[1] \in {PlainCode(k) : k \in DOMAIN Plaintexts}
     /\ key \in Keys
     /\ part[2] = KeyCode(KeyIndex(key))
  THEN Plaintexts[part[1] - PlainCode(0)]
  ELSE IF part # <<>> /\ g = "garbage" THEN Garbage ELSE <<>>

\* Encode: encryptData(data, key); key and data are (string | null) slots
encryptData(data, key) ==
  IF ~truthyKey(key) THEN [threw |-> TRUE, value |-> <<>>]
  ELSE IF ~truthy(data) THEN [threw |-> FALSE, value |-> <<>>]
  ELSE [threw |-> FALSE, value |-> AESencrypt(data[1], IF key = None THEN "" ELSE key[1])]

\* Decode: decryptData(encryptedData, key)
decryptData(encryptedData, key, g) ==
  LET decrypted == AESdecrypt(encryptedData, key, g)
  IN  IF decrypted = <<>> THEN [data |-> WrongKeyText, hasError |-> TRUE]
      ELSE [data |-> decrypted, hasError |-> FALSE]

(***************************************************************************)
(* The canvas. A 2D canvas keeps premultiplied pixels, so the colour of a  *)
(* pixel that is not opaque does not survive putImageData/getImageData.    *)
(***************************************************************************)
premultiply(c, a) == (c * a + 127) \div 255
unpremultiply(p, a) ==
  IF a = 0 THEN 0
  ELSE LET v == (p * 255 + (a \div 2)) \div a IN IF v > 255 THEN 255 ELSE v

\* the bytes read back from a canvas into which `data` was drawn or put
canvasStore(data) ==
  [j \in DOMAIN data |->
     IF j % 4 = 0 THEN data[j]
     ELSE LET a == data[j - (j % 4) + 4] IN unpremultiply(premultiply(data[j], a), a)]

(***************************************************************************)
(* Encode: the bit stream and the embedding loop of encodeImageMessage.    *)
(***************************************************************************)
\* Number.prototype.toString(2)
RECURSIVE toString2(_)
toString2(n) == IF n < 2 THEN <<n>> ELSE Append(toString2(n \div 2), n % 2)

\* padStart(8, "0")
padStart8(b) == IF Len(b) >= 8 THEN b ELSE [k \in 1..(8 - Len(b)) |-> 0] \o b

\* binaryMessage of fullMessage = message + "\0"
RECURSIVE toBinary(_)
toBinary(fullMessage) ==
  IF fullMessage = <<>> THEN <<>>
  ELSE padStart8(toString2(Head(fullMessage))) \o toBinary(Tail(fullMessage))

binaryMessageOf(message) == toBinary(Append(message, 0))

\* a slip: data[i] | bit, the old low bit is not cleared
setLowBitNoMask(byte, bit) == IF byte % 2 = 1 THEN byte ELSE byte + bit

\* (data[i] & 0b11111110) | bit
setLowBit(byte, bit) == (byte \div 2) * 2 + bit

\* a slip: the mask 0b11111100 instead of 0b11111110
writeChannelWideMask(st, bm, i) ==
  IF st.messageIndex < Len(bm)
  THEN [data |-> [st.data EXCEPT ![i + 1] = (@ \div 4) * 4 + bm[st.messageIndex + 1]],
        messageIndex |-> st.messageIndex + 1]
  ELSE st

\* one guarded channel write; the code's index i is position i + 1 here
writeChannel(st, bm, i) ==
  IF st.messageIndex < Len(bm)
  THEN [data |-> [st.data EXCEPT ![i + 1] = setLowBit(@, bm[st.messageIndex + 1])],
        messageIndex |-> st.messageIndex + 1]
  ELSE st

\* a slip: all four channels of the pixel are written, alpha included
embedPixelAlpha(st, bm, i) ==
  writeChannel(writeChannel(writeChannel(writeChannel(st, bm, i), bm, i + 1), bm, i + 2),
               bm, i + 3)

\* the body of the loop: Red, Green, Blue of the pixel at i
embedPixel(st, bm, i) ==
  writeChannel(writeChannel(writeChannel(st, bm, i), bm, i + 1), bm, i + 2)

\* a slip: the loop leaves the last pixel out
RECURSIVE embedLoopShort(_, _, _)
embedLoopShort(st, bm, i) ==
  IF i + 4 < Len(st.data) /\ st.messageIndex < Len(bm)
  THEN embedLoopShort(embedPixel(st, bm, i), bm, i + 4)
  ELSE st.data

RECURSIVE embedLoop(_, _, _)
embedLoop(st, bm, i) ==
  IF i < Len(st.data) /\ st.messageIndex < Len(bm)
  THEN embedLoop(embedPixel(st, bm, i), bm, i + 4)
  ELSE st.data

\* the ImageData after the loop
embed(data, message) ==
  embedLoop([data |-> data, messageIndex |-> 0], binaryMessageOf(message), 0)

(***************************************************************************)
(* Decode: bit extraction and byte reassembly of decodeImageMessage.       *)
(***************************************************************************)
RECURSIVE extractFrom(_, _)
extractFrom(data, i) ==
  IF i < Len(data)
  THEN <<data[i + 1] % 2, data[i + 2] % 2, data[i + 3] % 2>> \o extractFrom(data, i + 4)
  ELSE <<>>

extract(data) == extractFrom(data, 0)

\* parseInt(byte, 2)
RECURSIVE parseInt2(_)
parseInt2(byte) ==
  IF byte = <<>> THEN 0 ELSE 2 * parseInt2(SubSeq(byte, 1, Len(byte) - 1)) + byte[Len(byte)]

\* a slip: a zero byte is passed over (continue) where the loop should end (break)
RECURSIVE messageFromSkipNul(_, _)
messageFromSkipNul(binaryMessage, i) ==
  IF i >= Len(binaryMessage) THEN <<>>
  ELSE LET last == IF i + 8 <= Len(binaryMessage) THEN i + 8 ELSE Len(binaryMessage)
           byte == SubSeq(binaryMessage, i + 1, last)
       IN  IF Len(byte) < 8 THEN <<>>
           ELSE IF parseInt2(byte) = 0 THEN messageFromSkipNul(binaryMessage, i + 8)
           ELSE <<parseInt2(byte)>> \o messageFromSkipNul(binaryMessage, i + 8)

RECURSIVE messageFrom(_, _)
messageFrom(binaryMessage, i) ==
  IF i >= Len(binaryMessage) THEN <<>>
  ELSE LET last == IF i + 8 <= Len(binaryMessage) THEN i + 8 ELSE Len(binaryMessage)
           byte == SubSeq(binaryMessage, i + 1, last)
       IN  IF Len(byte) < 8 THEN <<>>
           ELSE IF parseInt2(byte) = 0 THEN <<>>
           ELSE <<parseInt2(byte)>> \o messageFrom(binaryMessage, i + 8)

messageOf(binaryMessage) == messageFrom(binaryMessage, 0)

(***************************************************************************)
(* Image files. A file is what FileReader.readAsDataURL or canvas.toDataURL*)
(* returned: isImage says the URL starts with "data:image", loads says the *)
(* browser can decode it (img.onload rather than img.onerror), data is the *)
(* decoded RGBA raster.                                                    *)
(***************************************************************************)
Raster(pixels, seed, stride, alpha) ==
  [j \in 1..(4 * pixels) |-> IF j % 4 = 0 THEN alpha ELSE (seed + j * stride) % 256]

ImageFile(data) == [isImage |-> TRUE, loads |-> TRUE, data |-> data]
\* an image/* file the browser cannot decode (truncated, or a format it lacks)
BrokenFile == [isImage |-> TRUE, loads |-> FALSE, data |-> <<>>]
\* a dropped file that is no image (handleDrop takes any file)
OtherFile == [isImage |-> FALSE, loads |-> FALSE, data |-> <<>>]

\* ctx.drawImage(img, 0, 0); ctx.getImageData(...).data
getImageData(file) == canvasStore(file.data)
\* ctx.putImageData(imgData, 0, 0); canvas.toDataURL()
toDataURL(data) == ImageFile(canvasStore(data))

(***************************************************************************)
(* decodeImageMessage: what the promise settles to once the image loaded.  *)
(* g[k] is the outcome of AES under a wrong key for the k-th part.         *)
(***************************************************************************)
\* a slip: an image found earlier is kept
RECURSIVE forEachPartFirstImage(_, _, _, _, _)
forEachPartFirstImage(parts, k, key, g, acc) ==
  IF k > Len(parts) THEN acc
  ELSE LET d == decryptData(parts[k], key, g[k])
           next == IF d.hasError THEN [acc EXCEPT !.hasError = TRUE]
                   ELSE IF base64ImageRegex(d.data)
                        THEN IF acc.embeddedImage = None
                             THEN [acc EXCEPT !.embeddedImage = Some(d.data)]
                             ELSE acc
                   ELSE IF d.data # <<>>
                        THEN [acc EXCEPT !.text = acc.text \o d.data \o <<32>>]
                   ELSE acc
       IN  forEachPartFirstImage(parts, k + 1, key, g, next)

\* parts.forEach: acc is <<text, embeddedImage, hasError>> as a record
RECURSIVE forEachPart(_, _, _, _, _)
forEachPart(parts, k, key, g, acc) ==
  IF k > Len(parts) THEN acc
  ELSE LET d == decryptData(parts[k], key, g[k])
           next == IF d.hasError THEN [acc EXCEPT !.hasError = TRUE]
                   ELSE IF base64ImageRegex(d.data)
                        THEN [acc EXCEPT !.embeddedImage = Some(d.data)]
                   ELSE IF d.data # <<>>
                        THEN [acc EXCEPT !.text = acc.text \o d.data \o <<32>>]
                   ELSE acc
       IN  forEachPart(parts, k + 1, key, g, next)

\* resolve({ text, embeddedImage, error, width, height }); None is undefined
Resolved(text, embeddedImage, error, width, height) ==
  [settled |-> "resolved", reason |-> "", text |-> text, embeddedImage |-> embeddedImage,
   error |-> error, width |-> width, height |-> height]

\* reject(reason)
Rejected(reason) ==
  [settled |-> "rejected", reason |-> reason, text |-> <<>>, embeddedImage |-> None,
   error |-> None, width |-> None, height |-> None]

\* a slip: the test of an empty message is missing, the parts are decrypted
decodeDataNoEmptyTest(data, key, g) ==
  LET message == messageOf(extract(data))
      parts == split(message)
      acc == forEachPart(parts, 1, key, g,
                         [text |-> <<>>, embeddedImage |-> None, hasError |-> FALSE])
  IN  IF acc.text = <<>> /\ acc.embeddedImage = None
      THEN IF acc.hasError
           THEN Resolved(WrongKeyText, None, Some("Wrong key"), Some(0), Some(0))
           ELSE Resolved(trim(NoHiddenDataText), None, None, Some(0), Some(0))
      ELSE Resolved(trim(acc.text), acc.embeddedImage, None, Some(0), Some(0))

\* a slip: hasError is never looked at
decodeDataErrorDropped(data, key, g) ==
  LET message == messageOf(extract(data))
      parts == split(message)
      acc == forEachPart(parts, 1, key, g,
                         [text |-> <<>>, embeddedImage |-> None, hasError |-> FALSE])
  IN  IF message = <<>> THEN Resolved(NoHiddenDataText, None, None, None, None)
      ELSE IF acc.text = <<>> /\ acc.embeddedImage = None
           THEN Resolved(trim(NoHiddenDataText), None, None, Some(0), Some(0))
      ELSE Resolved(trim(acc.text), acc.embeddedImage, None, Some(0), Some(0))

\* img.onload of decodeImageMessage, from `const data = imgData.data` on.
\* width and height are read at resolve time, before tempImg.onload can run,
\* so they are 0; parts.length > 0 always holds for a non-empty message.
decodeData(data, key, g) ==
  LET message == messageOf(extract(data))
      parts == split(message)
      acc == forEachPart(parts, 1, key, g,
                         [text |-> <<>>, embeddedImage |-> None, hasError |-> FALSE])
  IN  IF message = <<>> THEN Resolved(NoHiddenDataText, None, None, None, None)
      ELSE IF acc.text = <<>> /\ acc.embeddedImage = None
           THEN IF acc.hasError
                THEN Resolved(WrongKeyText, None, Some("Wrong key"), Some(0), Some(0))
                ELSE Resolved(trim(NoHiddenDataText), None, None, Some(0), Some(0))
      ELSE Resolved(trim(acc.text), acc.embeddedImage, None, Some(0), Some(0))

\* the settlement of decodeImageMessage(imageData, key)
decodeImageMessage(file, key, g) ==
  IF file.loads THEN decodeData(getImageData(file), key, g)
  ELSE Rejected("Failed to load image.")

(***************************************************************************)
(* handleSubmit of Encode, lines 307-316: the frame of one carrier.        *)
(* text is imageTexts[i], hidden is the data URL of the hidden file        *)
(* assigned to carrier i (None when findIndex gives -1), key is            *)
(* encryptionKeys[i].                                                      *)
(***************************************************************************)
\* a slip: the hidden image is put in front of the text
combinedMessageOfImageFirst(text, hidden, key) ==
  LET t == IF truthy(text) THEN encryptData(text, key)
           ELSE [threw |-> FALSE, value |-> <<>>]
      h == IF hidden # None THEN encryptData(hidden, key)
           ELSE [threw |-> FALSE, value |-> <<>>]
      sep == IF hidden # None /\ t.value # <<>> THEN DELIMITER ELSE <<>>
  IN  [threw |-> t.threw \/ h.threw, value |-> h.value \o sep \o t.value]

combinedMessageOf(text, hidden, key) ==
  LET t == IF truthy(text) THEN encryptData(text, key)
           ELSE [threw |-> FALSE, value |-> <<>>]
      h == IF hidden # None THEN encryptData(hidden, key)
           ELSE [threw |-> FALSE, value |-> <<>>]
      sep == IF hidden # None /\ t.value # <<>> THEN DELIMITER ELSE <<>>
  IN  [threw |-> t.threw \/ h.threw, value |-> t.value \o sep \o h.value]

\* the settlement of encodeImageMessage(imageData, message): a data URL
encodeImageMessage(file, message) ==
  IF file.loads THEN toDataURL(embed(getImageData(file), message))
  ELSE BrokenFile

(***************************************************************************)
(* State.                                                                  *)
(***************************************************************************)
VARIABLES
  \* one carrier taken through encode and decode
  stage,          \* "input", "framed", "encoded", "decoded"
  carrier,        \* the carrier file
  payloadText,    \* the text for the carrier (imageTexts[i]), or None
  payloadImage,   \* the hidden file for the carrier, or None
  encKey,         \* encryptionKeys[i]
  message,        \* combinedMessage
  dataIn,         \* imgData.data before the embedding loop
  dataOut,        \* imgData.data after the embedding loop
  encoded,        \* the downloaded file
  decKey,         \* the key typed in the Decode component
  outcome         \* what decodeImageMessage settled to

VARIABLES
  \* the Decode component
  disk,           \* names of the files the user can still pick
  reads,          \* FileReader batches in flight (Promise.all(readers))
  images,         \* useState images: <<[name, key]>>; data is FileOfName(name)
  decodedData,    \* useState decodedData
  confirmation,   \* useState confirmation
  timerPending,   \* a setTimeout(() => setConfirmation(""), 2000) is pending
  job             \* the handleSubmit in flight or last finished, or None

VARIABLES
  \* the Encode component
  carrierDisk,        \* names of the carrier files the user can still pick
  hiddenDisk,         \* the hidden files (data URLs) the user can still pick
  carrierReads,       \* FileReader batches of handleFileChange / handleDrop in flight
  hiddenReads,        \* FileReader batches of handleHiddenFileChange in flight
  files,              \* useState files: names; the data URL is FileOfName(name)
  hiddenFiles,        \* useState hiddenFiles: data URLs
  imageTexts,         \* useState imageTexts
  textImageIndices,   \* useState textImageIndices (0-based, as in the code)
  encryptionKeys,     \* useState encryptionKeys
  error,              \* useState error
  tempError,          \* useState tempError
  success,            \* useState success
  hiddenImageIndices, \* useState hiddenImageIndices (0-based, as in the code)
  isTextModalOpen,    \* useState isTextModalOpen
  tempTimerPending,   \* a setTimeout(() => setTempError(""), 2000) is pending
  resetPending,       \* the setTimeout of lines 344-356 is pending
  encodeJob           \* the handleSubmit in flight or last finished, or None

codecVars ==
  <<stage, carrier, payloadText, payloadImage, encKey, message, dataIn, dataOut, encoded,
    decKey, outcome>>

decodeVars == <<disk, reads, images, decodedData, confirmation, timerPending, job>>

encodeVars ==
  <<carrierDisk, hiddenDisk, carrierReads, hiddenReads, files, hiddenFiles, imageTexts,
    textImageIndices, encryptionKeys, error, tempError, success, hiddenImageIndices,
    isTextModalOpen, tempTimerPending, resetPending, encodeJob>>

vars == <<codecVars, decodeVars, encodeVars>>

\* the Encode component before anything was picked, with the files at hand
EncodeStart(carriers, hidden) ==
  /\ carrierDisk = carriers /\ hiddenDisk = hidden
  /\ carrierReads = {} /\ hiddenReads = {}
  /\ files = <<>> /\ hiddenFiles = <<>> /\ imageTexts = <<>>
  /\ textImageIndices = <<>> /\ encryptionKeys = <<>>
  /\ error = "" /\ tempError = "" /\ success = ""
  /\ hiddenImageIndices = <<>> /\ isTextModalOpen = FALSE
  /\ tempTimerPending = FALSE /\ resetPending = FALSE /\ encodeJob = None

(***************************************************************************)
(* One carrier through the codec.                                          *)
(***************************************************************************)
MidPixels == 8
\* 3 * EdgePixels + 1 bits are the frame of one character
EdgePixels == 5
\* 3 * TinyPixels bits are less than one byte
TinyPixels == 2

CodecCarriers ==
  { ImageFile(Raster(BigPixels, 0, 0, 255)),      \* opaque black
    ImageFile(Raster(BigPixels, 7, 37, 255)),     \* opaque, mixed colours
    ImageFile(Raster(BigPixels, 7, 37, 128)),     \* half transparent
    ImageFile(Raster(MidPixels, 7, 37, 255)),
    ImageFile(Raster(EdgePixels, 7, 37, 255)),
    ImageFile(Raster(SmallPixels, 255, 0, 255)),  \* opaque white, tiny
    ImageFile(Raster(TinyPixels, 255, 0, 255)) }  \* under eight bits of room

\* frames given directly to encodeImageMessage (bytes; base64 and others)
RawMessages ==
  { <<>>, <<85>>, <<65, 97>>, <<255, 1, 128>>, <<65, 97, 124, 124, 68, 97>>,
    <<65, 97, 124, 124, 68, 97, 66, 98>>,
    \* two texts ("hello", " hi "), and two images (PNG, JPEG), under "secret"
    <<65, 97, 124, 124, 66, 97>>, <<68, 97, 124, 124, 70, 97>> }

InitCodec ==
  /\ stage = "input"
  /\ carrier \in CodecCarriers
  /\ payloadText = None /\ payloadImage = None /\ encKey = None
  /\ message = <<>> /\ dataIn = <<>> /\ dataOut = <<>>
  /\ encoded = OtherFile /\ decKey = "" /\ outcome = None
  /\ disk = {} /\ reads = {} /\ images = <<>> /\ decodedData = <<>>
  /\ confirmation = "" /\ timerPending = FALSE /\ job = None
  /\ EncodeStart({}, {})

\* lines 307-316 for one carrier with a non-empty key
BuildFrame ==
  /\ stage = "input"
  /\ \E t \in {None} \cup {Some(x) : x \in Texts},
        h \in {None} \cup {Some(x) : x \in HiddenImages},
        k \in Keys :
       /\ payloadText' = t /\ payloadImage' = h /\ encKey' = Some(k)
       /\ message' = combinedMessageOf(t, h, Some(k)).value
  /\ stage' = "built"
  /\ UNCHANGED <<carrier, dataIn, dataOut, encoded, decKey, outcome,
                 decodeVars, encodeVars>>

\* a frame handed to encodeImageMessage as it is
RawFrame ==
  /\ stage = "input"
  /\ \E m \in RawMessages : message' = m
  /\ stage' = "raw"
  /\ UNCHANGED <<carrier, payloadText, payloadImage, encKey, dataIn, dataOut, encoded,
                 decKey, outcome,
                 decodeVars, encodeVars>>

\* lines 317-318 and 330-335: encodeImageMessage(files[i], combinedMessage)
EmbedFrame ==
  /\ stage \in {"built", "raw"}
  /\ stage = "built" => message # <<>>
  /\ dataIn' = getImageData(carrier)
  /\ dataOut' = embed(getImageData(carrier), message)
  /\ encoded' = encodeImageMessage(carrier, message)
  /\ stage' = "encoded"
  /\ UNCHANGED <<carrier, payloadText, payloadImage, encKey, message, decKey, outcome,
                 decodeVars, encodeVars>>

\* lines 317 and 336-338: no frame, the file is downloaded as it is
SkipEmpty ==
  /\ stage = "built" /\ message = <<>>
  /\ encoded' = carrier
  /\ stage' = "encoded"
  /\ UNCHANGED <<carrier, payloadText, payloadImage, encKey, message, dataIn, dataOut,
                 decKey, outcome,
                 decodeVars, encodeVars>>

partsOf(file) == split(messageOf(extract(getImageData(file))))

\* decodeImageMessage(image.data, image.key) on the downloaded file
DecodeCarrier ==
  /\ stage = "encoded"
  /\ \E k \in Keys \cup {""}, g \in [1..Len(partsOf(encoded)) -> WrongKeyOutcomes] :
       /\ decKey' = k
       /\ outcome' = Some(decodeImageMessage(encoded, k, g))
  /\ stage' = "decoded"
  /\ UNCHANGED <<carrier, payloadText, payloadImage, encKey, message, dataIn, dataOut,
                 encoded,
                 decodeVars, encodeVars>>

NextCodec == BuildFrame \/ RawFrame \/ EmbedFrame \/ SkipEmpty \/ DecodeCarrier

SpecCodec == InitCodec /\ [][NextCodec]_vars

(***************************************************************************)
(* Properties of the codec (SpecCodec).                                    *)
(***************************************************************************)
pixelCount(data) == Len(data) \div 4
\* the position in the buffer of the k-th R/G/B channel in raster order (k from 0)
channelAt(k) == 4 * (k \div 3) + (k % 3) + 1
Embedded == stage \in {"encoded", "decoded"} /\ dataOut # <<>>
Fits == 8 * (Len(message) + 1) <= 3 * pixelCount(dataIn)
isOpaque(data) == \A j \in DOMAIN data : j % 4 = 0 => data[j] = 255

\* C1 as stated: for a frame that fits, the bits extracted from the embedded
\* carrier ARE the frame's bit stream.
C1_ExtractEqualsStream ==
  (Embedded /\ Fits) => extract(dataOut) = binaryMessageOf(message)

\* C1 amended: for a frame that fits, the first 8 * (frame length) bits extracted
\* from the embedded carrier are the frame's bit stream; extract always returns
\* 3 * (pixel count) bits.
C1_ExtractPrefixIsStream ==
  (Embedded /\ Fits) =>
    /\ Len(extract(dataOut)) = 3 * pixelCount(dataIn)
    /\ SubSeq(extract(dataOut), 1, 8 * (Len(message) + 1)) = binaryMessageOf(message)

C1_Witness ==
  /\ Embedded /\ Fits
  /\ Len(message) >= 2
  /\ 8 * (Len(message) + 1) < 3 * pixelCount(dataIn)
  /\ extract(dataOut) # extract(dataIn)

\* C4: embedding leaves every alpha byte as it was, also for a frame longer than
\* the carrier's capacity, in the pixel buffer and in the file produced from it.
C4_AlphaUntouched ==
  Embedded =>
    /\ Len(dataOut) = Len(dataIn)
    /\ \A j \in DOMAIN dataIn : j % 4 = 0 => dataOut[j] = dataIn[j]
    /\ \A j \in DOMAIN carrier.data : j % 4 = 0 => encoded.data[j] = carrier.data[j]

C4_Witness ==
  /\ Embedded /\ ~Fits
  /\ dataOut # dataIn
  /\ ~isOpaque(dataIn)

\* C5: embedding keeps the upper 7 bits of every channel, sets the low bit of the
\* k-th R/G/B channel in raster order to the k-th bit of the stream, and leaves
\* every R/G/B channel at or beyond the stream length byte-identical.
C5_OnlyLowBits ==
  Embedded =>
    LET bm == binaryMessageOf(message)
    IN  /\ \A j \in DOMAIN dataIn : dataOut[j] \div 2 = dataIn[j] \div 2
        /\ \A k \in 0..(3 * pixelCount(dataIn) - 1) :
             IF k < Len(bm)
             THEN dataOut[channelAt(k)] % 2 = bm[k + 1]
             ELSE dataOut[channelAt(k)] = dataIn[channelAt(k)]

C5_Witness ==
  /\ Embedded
  /\ Len(binaryMessageOf(message)) < 3 * pixelCount(dataIn)
  /\ \E j \in DOMAIN dataIn : dataOut[j] # dataIn[j]
  /\ \E k \in Len(binaryMessageOf(message))..(3 * pixelCount(dataIn) - 1) :
       dataIn[channelAt(k)] % 2 = 1

Built == encKey # None
Capacity == 8 * (Len(message) + 1) <= 3 * pixelCount(carrier.data)
payloadTextOrEmpty == IF payloadText = None THEN <<>> ELSE payloadText[1]

\* C2: with sufficient capacity and the same non-empty key, decoding the encoded
\* carrier returns the original payload (text after trim, nested image) without
\* an error, for text only, image only, both and neither (for neither, the
\* text "No hidden data found" counts as the empty payload, as the page shows it).
C2_RoundTrip ==
  (stage = "decoded" /\ Built /\ Capacity /\ decKey = encKey[1]) =>
    /\ outcome[1].settled = "resolved"
    /\ outcome[1].error = None
    /\ outcome[1].embeddedImage = payloadImage
    /\ \/ outcome[1].text = trim(payloadTextOrEmpty)
       \/ /\ payloadText = None /\ payloadImage = None
          /\ outcome[1].text = NoHiddenDataText

\* C3: decoding with a key other than the one used to encode gives the wrong-key
\* result: error "Wrong key", no image, no recovered plaintext.
C3_WrongKeyDetected ==
  (stage = "decoded" /\ Built /\ message # <<>> /\ Capacity /\ decKey # encKey[1]) =>
    /\ outcome[1].settled = "resolved"
    /\ outcome[1].error = Some("Wrong key")
    /\ outcome[1].embeddedImage = None
    /\ outcome[1].text = WrongKeyText

\* C11: the frame of a carrier is the ciphertext of the text (if there is a
\* text), then "||" exactly when there are both a text and a nested image, then
\* the ciphertext of the nested image (if there is one), each encrypted on its
\* own; the bit stream is the frame's bytes followed by one NUL byte.
C11_FrameLayout ==
  (Built /\ stage # "input") =>
    LET textSegment == IF payloadText = None THEN <<>>
                       ELSE AESencrypt(payloadText[1], encKey[1])
        imageSegment == IF payloadImage = None THEN <<>>
                        ELSE AESencrypt(payloadImage[1], encKey[1])
        delimiter == IF payloadText # None /\ payloadImage # None THEN <<124, 124>> ELSE <<>>
    IN  /\ message = textSegment \o delimiter \o imageSegment
        /\ binaryMessageOf(message) = toBinary(message) \o <<0, 0, 0, 0, 0, 0, 0, 0>>
        /\ \A k \in DOMAIN message : message[k] # 0

C11_Witness ==
  /\ stage = "built"
  /\ payloadText # None /\ payloadImage # None
  /\ Len(message) = 6

\* C12: for a carrier of P pixels and a bit stream of L bits, the embedding
\* ends without an error and has written the first min(L, 3P) bits in order,
\* and nothing else: a stream of exactly 3P bits is stored whole, of a stream
\* of 3P + 1 bits the last bit is not stored.
C12_EmbedsFirstBits ==
  Embedded =>
    LET bm == binaryMessageOf(message)
        capacity == 3 * pixelCount(dataIn)
        n == IF Len(bm) < capacity THEN Len(bm) ELSE capacity
    IN  /\ encoded.isImage /\ encoded.loads
        /\ Len(extract(dataOut)) = capacity
        /\ SubSeq(extract(dataOut), 1, n) = SubSeq(bm, 1, n)
        /\ SubSeq(extract(dataOut), n + 1, capacity) = SubSeq(extract(dataIn), n + 1, capacity)

\* a stream of 3P + 1 bits was embedded
C12_Witness ==
  /\ Embedded
  /\ Len(binaryMessageOf(message)) = 3 * pixelCount(dataIn) + 1
  /\ dataOut # dataIn

\* the bits the decoder reads from the downloaded file, and the value of
\* their k-th whole group of 8 (k from 0), first bit most significant
decodedBits == extract(getImageData(encoded))
groupValue(bits, k) ==
  128 * bits[8 * k + 1] + 64 * bits[8 * k + 2] + 32 * bits[8 * k + 3] + 16 * bits[8 * k + 4]
    + 8 * bits[8 * k + 5] + 4 * bits[8 * k + 6] + 2 * bits[8 * k + 7] + bits[8 * k + 8]
wholeGroups(bits) == Len(bits) \div 8
\* the number of whole groups in front of the first zero group
groupsBeforeNul(bits) ==
  LET zero == {k \in 0..(wholeGroups(bits) - 1) : groupValue(bits, k) = 0}
  IN  IF zero = {} THEN wholeGroups(bits) ELSE CHOOSE k \in zero : \A l \in zero : k <= l

\* C13: the byte reassembly of the decoder gives exactly the whole 8-bit
\* groups, first bit most significant, in front of the first zero group: a
\* last group of fewer than 8 bits, the zero byte and everything behind it
\* are left out.
C13_BytesBeforeFirstNul ==
  stage = "decoded" =>
    messageOf(decodedBits) =
      [k \in 1..groupsBeforeNul(decodedBits) |-> groupValue(decodedBits, k - 1)]

\* a decoded file whose bits hold two bytes, a zero byte, a non-zero byte
\* behind it, and a last group of fewer than 8 bits
C13_Witness ==
  /\ stage = "decoded"
  /\ groupsBeforeNul(decodedBits) = 2
  /\ Len(decodedBits) % 8 # 0
  /\ \E k \in 3..(wholeGroups(decodedBits) - 1) : groupValue(decodedBits, k) # 0

\* C14 as stated: whenever the decryption of at least one segment of a
\* carrier's frame failed, the carrier's result carries the error "Wrong key".
\* (g ranges over what CryptoJS may have done with the segments to give this
\* outcome.)
C14_AnyFailedSegmentIsWrongKey ==
  stage = "decoded" =>
    \A g \in [1..Len(partsOf(encoded)) -> WrongKeyOutcomes] :
      ( /\ messageOf(decodedBits) # <<>>
        /\ decodeImageMessage(encoded, decKey, g) = outcome[1]
        /\ \E k \in DOMAIN partsOf(encoded) :
             decryptData(partsOf(encoded)[k], decKey, g[k]).hasError )
      => outcome[1].error = Some("Wrong key")

\* C14 amended: the carrier's result carries the error "Wrong key" exactly
\* when the decryption of every segment of its frame failed; when some
\* segment failed and another gave a text or an image, the result has no error.
C14_AllFailedSegmentsIsWrongKey ==
  stage = "decoded" =>
    \A g \in [1..Len(partsOf(encoded)) -> WrongKeyOutcomes] :
      ( /\ messageOf(decodedBits) # <<>>
        /\ decodeImageMessage(encoded, decKey, g) = outcome[1] )
      => ( outcome[1].error = Some("Wrong key")
           <=> \A k \in DOMAIN partsOf(encoded) :
                 decryptData(partsOf(encoded)[k], decKey, g[k]).hasError )

\* a frame of two segments was decoded under another key, with error "Wrong key"
C14_Witness ==
  /\ stage = "decoded" /\ Built
  /\ Len(partsOf(encoded)) = 2
  /\ decKey # encKey[1]
  /\ outcome[1].error = Some("Wrong key")

\* the segments of the decoded frame as the key decrypts them whatever
\* CryptoJS does with a wrong key (<<>> where the decryption is not certain)
frameSegments ==
  [k \in DOMAIN partsOf(encoded) |-> AESdecrypt(partsOf(encoded)[k], decKey, "fail")]
successfullyDecoded ==
  /\ stage = "decoded"
  /\ messageOf(decodedBits) # <<>>
  /\ \A k \in DOMAIN frameSegments : frameSegments[k] # <<>>
imageSegments == SelectSeq(frameSegments, LAMBDA s : base64ImageRegex(s))
textSegments == SelectSeq(frameSegments, LAMBDA s : ~base64ImageRegex(s))
RECURSIVE joinedBySpaces(_)
joinedBySpaces(segments) ==
  IF segments = <<>> THEN <<>>
  ELSE IF Len(segments) = 1 THEN segments[1]
  ELSE segments[1] \o <<32>> \o joinedBySpaces(Tail(segments))

\* C15 as stated: for a frame whose segments all decrypt, the image of the
\* result is the last segment with the image signature (none if there is no
\* such segment) and the text of the result is the other segments in frame
\* order joined by single spaces.
C15_TextJoinedLastImage ==
  successfullyDecoded =>
    /\ outcome[1].error = None
    /\ outcome[1].embeddedImage =
         (IF imageSegments = <<>> THEN None ELSE Some(imageSegments[Len(imageSegments)]))
    /\ outcome[1].text = joinedBySpaces(textSegments)

\* C15 amended: as above, and the joined text is trimmed of the white space at
\* its two ends.
C15_TextJoinedTrimmedLastImage ==
  successfullyDecoded =>
    /\ outcome[1].error = None
    /\ outcome[1].embeddedImage =
         (IF imageSegments = <<>> THEN None ELSE Some(imageSegments[Len(imageSegments)]))
    /\ outcome[1].text = trim(joinedBySpaces(textSegments))

\* a frame of two image segments was decoded
C15_Witness ==
  /\ successfullyDecoded
  /\ Len(imageSegments) = 2
  /\ imageSegments[1] # imageSegments[2]

\* the pixel dimensions of the pictures behind the nested data URLs
\* (tempImg.width and tempImg.height once tempImg has loaded)
tempImgWidth(url) == IF url = HiddenPng THEN 2 ELSE 3
tempImgHeight(url) == IF url = HiddenPng THEN 2 ELSE 1

\* C16: the outcome of a carrier whose frame holds a nested image carries the
\* width and the height of that image (2 and 2 for the 2x2 PNG).
C16_DimensionsRecovered ==
  (stage = "decoded" /\ outcome[1].settled = "resolved" /\ outcome[1].embeddedImage # None) =>
    /\ outcome[1].width = Some(tempImgWidth(outcome[1].embeddedImage[1]))
    /\ outcome[1].height = Some(tempImgHeight(outcome[1].embeddedImage[1]))

\* the payloads of the carrier in frame order
payloadsPresent ==
  (IF payloadText = None THEN <<>> ELSE <<payloadText[1]>>)
    \o (IF payloadImage = None THEN <<>> ELSE <<payloadImage[1]>>)

\* C20: the frame read back from an encoded carrier splits on "||" into
\* exactly one segment per payload given at encode, and under the key of the
\* encode these segments decrypt to those payloads, also for a text that
\* contains "||" itself. (Opaque carrier with room for the frame.)
C20_OneSegmentPerPayload ==
  ( /\ stage = "decoded" /\ Built /\ message # <<>>
    /\ Capacity /\ isOpaque(carrier.data)
    /\ decKey = encKey[1] )
  => /\ Len(partsOf(encoded)) = Len(payloadsPresent)
     /\ \A k \in DOMAIN partsOf(encoded) :
          \A c \in DOMAIN partsOf(encoded)[k] : partsOf(encoded)[k][c] # 124
     /\ frameSegments = payloadsPresent

\* the text "a||b" and a nested image went through encode and decode
C20_Witness ==
  /\ stage = "decoded" /\ Built
  /\ Capacity /\ isOpaque(carrier.data)
  /\ decKey = encKey[1]
  /\ payloadText = Some(TextDelim) /\ payloadImage # None
  /\ Len(partsOf(encoded)) = 2

\* encodeImageMessage, lines 31-42: the test that starts the probe of the
\* nested image, and the bits hiddenImg.onload appends to binaryMessage. The
\* frame is ciphertext, so the test fails; and hiddenImg.onload could only
\* run after the embedding loop and resolve, which is why embed does without.
hiddenImgProbed(frame) == startsWith(frame, DataImagePrefix)
\* `DIM:${hiddenImg.width}x${hiddenImg.height}:`
dimString(url) ==
  <<68, 73, 77, 58, 48 + tempImgWidth(url), 120, 48 + tempImgHeight(url), 58>>

\* C21: when a carrier gets a nested image, the encoder probes the nested
\* image and its width and height are recorded in what the encode step
\* keeps for the carrier: the bits behind the frame in the output image are
\* those of the dimension record, as far as the carrier has room.
C21_DimensionsRecorded ==
  (Embedded /\ Built /\ payloadImage # None /\ Fits) =>
    LET frameBits == 8 * (Len(message) + 1)
        room == 3 * pixelCount(dataOut) - frameBits
        dimBits == toBinary(dimString(payloadImage[1]))
        n == IF room < Len(dimBits) THEN room ELSE Len(dimBits)
    IN  /\ hiddenImgProbed(message)
        /\ SubSeq(extract(dataOut), frameBits + 1, frameBits + n) = SubSeq(dimBits, 1, n)

\* C23: a carrier whose extracted bits give no byte before the first NUL,
\* or fewer than eight bits, decodes to the text "No hidden data found" with
\* no image and no error, under every key.
C23_EmptyIsNoHiddenData ==
  (stage = "decoded" /\ messageOf(decodedBits) = <<>>) =>
    /\ outcome[1].settled = "resolved"
    /\ outcome[1].text = NoHiddenDataText
    /\ outcome[1].embeddedImage = None
    /\ outcome[1].error = None

\* a carrier with six bits of room was decoded under a key
C23_Witness ==
  /\ stage = "decoded" /\ Len(decodedBits) < 8
  /\ decKey # "" /\ outcome[1].text = NoHiddenDataText

(***************************************************************************)
(* The Decode component (src/components/Decode.tsx).                       *)
(*                                                                         *)
(* Event handlers and promise reactions are atomic: the microtasks that a  *)
(* handler queues (the reactions of Promise.all and of await) run before   *)
(* the next event. One handleSubmit is followed at a time; a file is       *)
(* picked at most once; the files at hand are chosen by the initial disk.  *)
(***************************************************************************)
MAX_FILES == 4

\* the files the user has: a carrier encoded with text and a PNG under "secret",
\* an image that was never encoded, an image whose low bits spell no frame,
\* and a file the browser cannot decode
FileOfName(name) ==
  CASE name = "both.png" ->
         encodeImageMessage(ImageFile(Raster(BigPixels, 7, 37, 255)),
                            combinedMessageOf(Some(TextHello), Some(HiddenPng),
                                              Some("secret")).value)
    [] name = "plain.png" -> ImageFile(Raster(BigPixels, 7, 37, 255))
    [] name = "white.png" -> ImageFile(Raster(SmallPixels, 255, 0, 255))
    [] name = "broken.png" -> BrokenFile
    [] OTHER -> OtherFile

DecodeFileNames == {"both.png", "broken.png"}
\* the keys typed into a key input ("" is the input left or made empty)
DecodeKeys == {"", "secret"}

\* e.target.files / e.dataTransfer.files: some of the files, in some order
Batches(S) ==
  UNION { { b \in [1..n -> S] : \A x, y \in 1..n : x # y => b[x] # b[y] } :
          n \in 1..Cardinality(S) }
Range(f) == {f[x] : x \in DOMAIN f}
Remove(seq, index) == [k \in 1..(Len(seq) - 1) |-> IF k < index THEN seq[k] ELSE seq[k + 1]]

Pending ==
  [settled |-> "pending", reason |-> "", text |-> <<>>, embeddedImage |-> None,
   error |-> None, width |-> None, height |-> None]

AllSettled(j) == \A k \in DOMAIN j.tasks : j.tasks[k].settled # "pending"
\* a slip: the batch is never seen as complete
AllResolvedNever(tasks) == FALSE

AllResolved(tasks) == \A k \in DOMAIN tasks : tasks[k].settled = "resolved"

\* a slip: the results are listed last carrier first
decodedResultsReversed(j, tasks) ==
  [k \in DOMAIN tasks |->
     [text |-> tasks[Len(tasks) + 1 - k].text, image |-> tasks[Len(tasks) + 1 - k].embeddedImage,
      name |-> j.images[Len(tasks) + 1 - k].name, error |-> tasks[Len(tasks) + 1 - k].error]]

\* lines 177-180: { text, image: embeddedImage, name: image.name, error }
decodedResults(j, tasks) ==
  [k \in DOMAIN tasks |->
     [text |-> tasks[k].text, image |-> tasks[k].embeddedImage,
      name |-> j.images[k].name, error |-> tasks[k].error]]

InitDecode ==
  /\ stage = "off" /\ carrier = OtherFile
  /\ payloadText = None /\ payloadImage = None /\ encKey = None
  /\ message = <<>> /\ dataIn = <<>> /\ dataOut = <<>>
  /\ encoded = OtherFile /\ decKey = "" /\ outcome = None
  /\ disk = DecodeFileNames /\ reads = {} /\ images = <<>> /\ decodedData = <<>>
  /\ confirmation = "" /\ timerPending = FALSE /\ job = None
  /\ EncodeStart({}, {})

\* the record of a finished handleSubmit is dropped at the next user event
jobAfterEvent == IF job = None THEN None ELSE IF AllSettled(job[1]) THEN None ELSE job

\* lines 19-36 and 44-62: the size check, then the readers are started
selectFiles(batch, warning) ==
  IF Len(images) + Len(batch) > MAX_FILES
  THEN /\ confirmation' = warning
       /\ timerPending' = TRUE
       /\ job' = jobAfterEvent
       /\ UNCHANGED <<disk, reads, images, decodedData>>
  ELSE /\ reads' = reads \cup {batch}
       /\ disk' = disk \ Range(batch)
       /\ job' = jobAfterEvent
       /\ UNCHANGED <<images, decodedData, confirmation, timerPending>>

Decode_handleFileChange ==
  /\ \E batch \in Batches(disk) :
       selectFiles(batch, "You can only upload a maximum of 4 files.")
  /\ UNCHANGED <<codecVars, encodeVars>>

Decode_handleDrop ==
  /\ \E batch \in Batches(disk) :
       selectFiles(batch, "You can only drop a maximum of 4 files.")
  /\ UNCHANGED <<codecVars, encodeVars>>

\* lines 38-40 and 64-66: all readers of a batch have ended
Decode_readersDone ==
  /\ \E batch \in reads :
       /\ reads' = reads \ {batch}
       /\ images' = images \o [k \in DOMAIN batch |-> [name |-> batch[k], key |-> ""]]
  /\ UNCHANGED <<disk, decodedData, confirmation, timerPending, job>>
  /\ UNCHANGED <<codecVars, encodeVars>>

\* lines 33 and 59: a reader fails, Promise.all rejects, nothing is added
Decode_readerError ==
  /\ \E batch \in reads : reads' = reads \ {batch}
  /\ UNCHANGED <<disk, images, decodedData, confirmation, timerPending, job>>
  /\ UNCHANGED <<codecVars, encodeVars>>

Decode_handleKeyChange ==
  /\ \E index \in DOMAIN images, value \in DecodeKeys :
       images' = [images EXCEPT ![index].key = value]
  /\ job' = jobAfterEvent
  /\ UNCHANGED <<disk, reads, decodedData, confirmation, timerPending>>
  /\ UNCHANGED <<codecVars, encodeVars>>

Decode_handleRemoveFile ==
  /\ \E index \in DOMAIN images : images' = Remove(images, index)
  /\ decodedData' = <<>>
  /\ job' = jobAfterEvent
  /\ UNCHANGED <<disk, reads, confirmation, timerPending>>
  /\ UNCHANGED <<codecVars, encodeVars>>

\* lines 169-181: the tasks of Promise.all(images.map(...)) are started
Decode_handleSubmit ==
  /\ IF Len(images) = 0
     THEN /\ confirmation' = "Please upload at least one image."
          /\ job' = jobAfterEvent
     ELSE /\ IF job = None THEN TRUE ELSE AllSettled(job[1])
          /\ job' = Some([images |-> images,
                          tasks |-> [k \in DOMAIN images |-> Pending],
                          batch |-> "pending",
                          reported |-> None])
          /\ UNCHANGED confirmation
  /\ UNCHANGED <<disk, reads, images, decodedData, timerPending>>
  /\ UNCHANGED <<codecVars, encodeVars>>

\* lines 87-157, then 178-184 when this was the last task of a batch that
\* has not been rejected
Decode_imgOnload ==
  /\ job # None
  /\ \E index \in DOMAIN job[1].tasks :
       LET j == job[1]
           file == FileOfName(j.images[index].name)
       IN  /\ j.tasks[index].settled = "pending"
           /\ file.loads
           /\ \E g \in [1..Len(partsOf(file)) -> WrongKeyOutcomes] :
                LET tasks == [j.tasks EXCEPT
                                ![index] = decodeImageMessage(file, j.images[index].key, g)]
                IN  IF j.batch = "pending" /\ AllResolved(tasks)
                    THEN /\ decodedData' = decodedResults(j, tasks)
                         /\ timerPending' = TRUE
                         /\ job' = Some([j EXCEPT !.tasks = tasks, !.batch = "fulfilled",
                                           !.reported = Some(decodedResults(j, tasks))])
                    ELSE /\ job' = Some([j EXCEPT !.tasks = tasks])
                         /\ UNCHANGED <<decodedData, timerPending>>
  /\ UNCHANGED <<disk, reads, images, confirmation>>
  /\ UNCHANGED <<codecVars, encodeVars>>

\* line 159, then 185-187 when this is the first rejection of the batch
Decode_imgOnerror ==
  /\ job # None
  /\ \E index \in DOMAIN job[1].tasks :
       LET j == job[1]
           file == FileOfName(j.images[index].name)
           tasks == [j.tasks EXCEPT ![index] = Rejected("Failed to load image.")]
       IN  /\ j.tasks[index].settled = "pending"
           /\ ~file.loads
           /\ IF j.batch = "pending"
              THEN /\ confirmation' = "Error decoding images: Failed to load image."
                   /\ job' = Some([j EXCEPT !.tasks = tasks, !.batch = "rejected"])
              ELSE /\ job' = Some([j EXCEPT !.tasks = tasks])
                   /\ UNCHANGED confirmation
  /\ UNCHANGED <<disk, reads, images, decodedData, timerPending>>
  /\ UNCHANGED <<codecVars, encodeVars>>

\* lines 25, 51, 184: a pending timer clears the confirmation; others may remain
Decode_confirmationTimeout ==
  /\ timerPending
  /\ confirmation' = ""
  /\ timerPending' \in BOOLEAN
  /\ UNCHANGED <<disk, reads, images, decodedData, job>>
  /\ UNCHANGED <<codecVars, encodeVars>>

NextDecode ==
  \/ Decode_handleFileChange
  \/ Decode_handleDrop
  \/ Decode_readersDone
  \/ Decode_readerError
  \/ Decode_handleKeyChange
  \/ Decode_handleRemoveFile
  \/ Decode_handleSubmit
  \/ Decode_imgOnload
  \/ Decode_imgOnerror
  \/ Decode_confirmationTimeout

SpecDecode == InitDecode /\ [][NextDecode]_vars

(***************************************************************************)
(* Properties of a decode batch (SpecDecode).                              *)
(***************************************************************************)
\* C6: a carrier whose own decode resolved has that outcome reported (text, image,
\* error as if decoded alone), whatever happened to the other carriers of the batch.
C6_CarriersIndependent ==
  (job # None /\ AllSettled(job[1])) =>
    \A k \in DOMAIN job[1].tasks :
      job[1].tasks[k].settled = "resolved" =>
        /\ job[1].reported # None
        /\ job[1].reported[1][k] = decodedResults(job[1], job[1].tasks)[k]

\* C8: the batch outcome is surfaced only when every task has settled, and no
\* resolved task's outcome is discarded because a sibling failed.
C8_AggregateWaitsForAll ==
  job # None =>
    /\ job[1].batch # "pending" => AllSettled(job[1])
    /\ job[1].batch = "rejected" =>
         \A k \in DOMAIN job[1].tasks : job[1].tasks[k].settled # "resolved"


(***************************************************************************)
(* Decode batches of files that all load (SpecDecodeLoadable): with no     *)
(* undecodable file at hand img.onerror has nothing to do.                 *)
(***************************************************************************)
LoadableFileNames == {"both.png", "white.png"}

InitDecodeLoadable ==
  /\ stage = "off" /\ carrier = OtherFile
  /\ payloadText = None /\ payloadImage = None /\ encKey = None
  /\ message = <<>> /\ dataIn = <<>> /\ dataOut = <<>>
  /\ encoded = OtherFile /\ decKey = "" /\ outcome = None
  /\ disk = LoadableFileNames /\ reads = {} /\ images = <<>> /\ decodedData = <<>>
  /\ confirmation = "" /\ timerPending = FALSE /\ job = None
  /\ EncodeStart({}, {})

NextDecodeLoadable ==
  \/ Decode_handleFileChange
  \/ Decode_handleDrop
  \/ Decode_readersDone
  \/ Decode_readerError
  \/ Decode_handleKeyChange
  \/ Decode_handleRemoveFile
  \/ Decode_handleSubmit
  \/ Decode_imgOnload
  \/ Decode_confirmationTimeout

SpecDecodeLoadable == InitDecodeLoadable /\ [][NextDecodeLoadable]_vars

\* carrier k of job j, decoded on its own, can give the result r
outcomeOfCarrier(j, k, r) ==
  LET file == FileOfName(j.images[k].name)
  IN  \E g \in [1..Len(partsOf(file)) -> WrongKeyOutcomes] :
        LET d == decodeImageMessage(file, j.images[k].key, g)
        IN  /\ r.name = j.images[k].name
            /\ r.text = d.text /\ r.image = d.embeddedImage /\ r.error = d.error

\* C17: when a decode submit has completed, decodedData has one entry per
\* carrier of the submitted batch, and entry i is the outcome of the carrier
\* that was at images[i] when the submit started, in whatever order the
\* carriers were decoded.
C17_ResultsInInputOrder ==
  IF job = None THEN TRUE
  ELSE job[1].batch = "fulfilled" =>
         /\ Len(decodedData) = Len(job[1].images)
         /\ \A k \in DOMAIN decodedData : outcomeOfCarrier(job[1], k, decodedData[k])

\* a completed batch of two carriers with different outcomes
C17_Witness ==
  IF job = None THEN FALSE
  ELSE /\ job[1].batch = "fulfilled"
       /\ Len(job[1].images) = 2
       /\ job[1].images[1].name = "white.png"
       /\ decodedData[1].error = Some("Wrong key")
       /\ decodedData[2].error = None /\ decodedData[2].image # None

\* C19: a "Wrong key" shown next to the key input of the carrier at images[i]
\* (the page shows decodedData[i].error there) is the outcome of decoding
\* that carrier, also when carriers are removed or added while a submit is
\* pending.
C19_WrongKeyAtItsCarrier ==
  \A i \in DOMAIN decodedData :
    (decodedData[i].error = Some("Wrong key") /\ i \in DOMAIN images) =>
      images[i].name = decodedData[i].name

(***************************************************************************)
(* Progress of a decode batch (SpecDecodeLive).  A data URL given to       *)
(* img.src is decoded by the browser, which then fires onload or onerror,  *)
(* and a timer that was set fires: these callbacks are weakly fair.  The   *)
(* user's events are not.                                                  *)
(***************************************************************************)
\* an image of the submit has fired neither onload nor onerror yet
TaskPending ==
  job # None /\ \E k \in DOMAIN job[1].tasks : job[1].tasks[k].settled = "pending"

\* WF_vars(Decode_imgOnload \/ Decode_imgOnerror), with ENABLED written out:
\* a pending image either loads or does not, so one of the two handlers is
\* enabled exactly when TaskPending holds
ImageEventsFair ==
  \/ []<>(~TaskPending)
  \/ []<><<Decode_imgOnload \/ Decode_imgOnerror>>_vars

SpecDecodeLive ==
  /\ InitDecode
  /\ [][NextDecode]_vars
  /\ ImageEventsFair
  /\ WF_vars(Decode_confirmationTimeout)

\* handleSubmit awaits Promise.all
SubmitPending == job # None /\ job[1].batch = "pending"

\* setDecodedData ran with one outcome per submitted carrier
SubmitDone ==
  /\ job # None /\ job[1].batch = "fulfilled"
  /\ job[1].reported # None
  /\ Len(job[1].reported[1]) = Len(job[1].images)
  /\ decodedData = job[1].reported[1]

\* the catch block set the decoding error
SubmitFailed ==
  /\ job # None /\ job[1].batch = "rejected"
  /\ confirmation = "Error decoding images: Failed to load image."

\* C24: a decode handleSubmit with at least one carrier does not stay pending
\* for ever: it publishes decodedData with one outcome per submitted carrier,
\* or it publishes a decoding error.
C24_SubmitSettles == SubmitPending ~> (SubmitDone \/ SubmitFailed)

\* a submit has published the outcome of its carrier
C24_Witness == SubmitDone /\ Len(job[1].images) >= 1

(***************************************************************************)
(* The Encode component.                                                   *)
(*                                                                         *)
(* handleSubmit reads files, imageTexts, encryptionKeys, hiddenFiles and   *)
(* hiddenImageIndices from the closure of the render it was clicked in, so *)
(* nothing that happens between its awaits changes what it does: the model *)
(* lets no other event in while a handleSubmit is in flight, and reads the *)
(* state in place of the closure. The record of a finished handleSubmit is *)
(* dropped at the next event.                                              *)
(***************************************************************************)
MAX_HIDDEN_FILES == 4
MAX_TEXTS == 4

\* an array element that was never assigned (a hole left by line 227)
Undefined == <<-1>>

\* the files at hand: carriers by name, hidden files by their data URL
EncodeFileNames == {"plain.png", "broken.png"}
EncodeHiddenFiles == {HiddenPng}
\* what is typed into a textarea and into a key input ("": the field is emptied)
EncodeTexts == {TextHello, <<>>}
EncodeKeys == {"secret", ""}

\* lines 361-368
getAvailableTextImages ==
  { index \in 0..(Len(files) - 1) :
      /\ FileOfName(files[index + 1]).isImage
      /\ index \notin Range(textImageIndices) }

\* lines 370-377
getAvailableHiddenImages ==
  { index \in 0..(Len(files) - 1) :
      /\ FileOfName(files[index + 1]).isImage
      /\ Some(index) \notin Range(hiddenImageIndices) }

\* hiddenImageIndices.findIndex(idx => idx === i)
findHiddenFileIndex(i) ==
  LET S == {k \in DOMAIN hiddenImageIndices : hiddenImageIndices[k] = Some(i)}
  IN  IF S = {} THEN -1 ELSE (CHOOSE k \in S : \A l \in S : k <= l) - 1

\* hiddenFiles[hiddenFileIndex] as the argument of encryptData; None when
\* findIndex gave -1, an empty slot when the array has no such element
hiddenFileFor(hiddenFileIndex) ==
  IF hiddenFileIndex = -1 THEN None
  ELSE IF hiddenFileIndex + 1 \in DOMAIN hiddenFiles
       THEN Some(hiddenFiles[hiddenFileIndex + 1])
       ELSE Some(<<>>)

\* a validation in which no key is asked for
allImagesHaveKeysUnchecked == TRUE

\* lines 278-280
allImagesHaveKeys == \A index \in DOMAIN files : truthyKey(encryptionKeys[index])

\* a slip: a text slot counts as content before anything is typed into it
imagesWithContentAnySlot ==
  Range(textImageIndices)
    \cup {hiddenImageIndices[k][1] : k \in {l \in DOMAIN hiddenImageIndices :
                                              hiddenImageIndices[l] # None}}

\* lines 290-293
imagesWithContent ==
  {textImageIndices[k] : k \in {l \in DOMAIN textImageIndices :
                                  truthy(imageTexts[textImageIndices[l] + 1])}}
    \cup {hiddenImageIndices[k][1] : k \in {l \in DOMAIN hiddenImageIndices :
                                              hiddenImageIndices[l] # None}}

\* files.findIndex(...) + 1 for a predicate on 1-based positions
firstImage(S) == CHOOSE index \in S : \A other \in S : index <= other

\* lines 268-301: the error handleSubmit reports before it encodes, or ""
\* (the messages are preceded by a warning sign in the code)
validationError ==
  IF Len(files) = 0 THEN "Please upload at least one file."
  ELSE IF Len(hiddenFiles) > 0 /\ \E k \in DOMAIN hiddenImageIndices : hiddenImageIndices[k] = None
  THEN "Please select an image for each hidden file."
  ELSE IF ~allImagesHaveKeys
  THEN "Please assign an encryption key to Image "
         \o ToString(firstImage({index \in DOMAIN files : ~truthyKey(encryptionKeys[index])}))
         \o "."
  ELSE IF \E index \in DOMAIN files : (index - 1) \notin imagesWithContent
  THEN "Please assign text or a hidden file to Image "
         \o ToString(firstImage({index \in DOMAIN files : (index - 1) \notin imagesWithContent}))
         \o "."
  ELSE ""

\* lines 303-326: the for loop from carrier i (0-based) on, up to the point
\* where it awaits encodeImageMessage, throws, or ends
RECURSIVE encodeFrom(_, _)
encodeFrom(i, encodedImages) ==
  IF i >= Len(files)
  THEN [status |-> "done", i |-> i, message |-> <<>>, hiddenFileIndex |-> -1,
        encodedImages |-> encodedImages, downloads |-> <<>>]
  ELSE IF ~FileOfName(files[i + 1]).isImage THEN encodeFrom(i + 1, encodedImages)
  ELSE LET hiddenFileIndex == findHiddenFileIndex(i)
           combinedMessage == combinedMessageOf(imageTexts[i + 1], hiddenFileFor(hiddenFileIndex),
                                                encryptionKeys[i + 1])
       IN  IF combinedMessage.threw
           THEN [status |-> "threw", i |-> i, message |-> <<>>, hiddenFileIndex |-> hiddenFileIndex,
                 encodedImages |-> encodedImages, downloads |-> <<>>]
           ELSE IF combinedMessage.value = <<>> THEN encodeFrom(i + 1, encodedImages)
           ELSE [status |-> "awaiting", i |-> i, message |-> combinedMessage.value,
                 hiddenFileIndex |-> hiddenFileIndex, encodedImages |-> encodedImages,
                 downloads |-> <<>>]

\* a slip: one prefix for both kinds of encoded download
downloadsOfOnePrefix(encodedImages) ==
  [index \in DOMAIN files |->
     LET found == {k \in DOMAIN encodedImages : encodedImages[k].index = index - 1}
     IN  IF found # {}
         THEN LET encodedVersion == encodedImages[CHOOSE k \in found : \A l \in found : k <= l]
              IN  [href |-> encodedVersion.data,
                   download |->
                     IF encodedVersion.hiddenFileIndex # -1
                     THEN "encoded_" \o ToString(encodedVersion.hiddenFileIndex + 1) \o ".png"
                     ELSE "encoded_" \o ToString(index) \o ".png"]
         ELSE [href |-> FileOfName(files[index]),
               download |-> "image_" \o ToString(index) \o ".png"]]

\* a slip: the two names are the wrong way round
downloadsOfSwapped(encodedImages) ==
  [index \in DOMAIN files |->
     LET found == {k \in DOMAIN encodedImages : encodedImages[k].index = index - 1}
     IN  IF found # {}
         THEN LET encodedVersion == encodedImages[CHOOSE k \in found : \A l \in found : k <= l]
              IN  [href |-> encodedVersion.data,
                   download |->
                     IF encodedVersion.hiddenFileIndex = -1
                     THEN "encoded_hidden_" \o ToString(index) \o ".png"
                     ELSE "encoded_text_" \o ToString(index) \o ".png"]
         ELSE [href |-> FileOfName(files[index]),
               download |-> "image_" \o ToString(index) \o ".png"]]

\* lines 328-341: one download per file, <<href, name>>
downloadsOf(encodedImages) ==
  [index \in DOMAIN files |->
     LET found == {k \in DOMAIN encodedImages : encodedImages[k].index = index - 1}
     IN  IF found # {}
         THEN LET encodedVersion == encodedImages[CHOOSE k \in found : \A l \in found : k <= l]
              IN  [href |-> encodedVersion.data,
                   download |->
                     IF encodedVersion.hiddenFileIndex # -1
                     THEN "encoded_hidden_" \o ToString(encodedVersion.hiddenFileIndex + 1) \o ".png"
                     ELSE "encoded_text_" \o ToString(index) \o ".png"]
         ELSE [href |-> FileOfName(files[index]),
               download |-> "image_" \o ToString(index) \o ".png"]]

InitEncode ==
  /\ stage = "off" /\ carrier = OtherFile
  /\ payloadText = None /\ payloadImage = None /\ encKey = None
  /\ message = <<>> /\ dataIn = <<>> /\ dataOut = <<>>
  /\ encoded = OtherFile /\ decKey = "" /\ outcome = None
  /\ disk = {} /\ reads = {} /\ images = <<>> /\ decodedData = <<>>
  /\ confirmation = "" /\ timerPending = FALSE /\ job = None
  /\ EncodeStart(EncodeFileNames, EncodeHiddenFiles)

submitInFlight == IF encodeJob = None THEN FALSE ELSE encodeJob[1].status = "awaiting"

\* any event but a step of handleSubmit
EncodeEvent ==
  /\ ~submitInFlight
  /\ encodeJob' = None
  /\ UNCHANGED <<codecVars, decodeVars>>

\* lines 127-133 and 183-189: the size check
selectCarriers(batch, verb) ==
  IF Len(files) + Len(batch) > MAX_FILES
  THEN /\ tempError' = "You can only " \o verb \o " a maximum of 4 files. You tried to add "
                         \o ToString(Len(files) + Len(batch) - MAX_FILES) \o "."
       /\ tempTimerPending' = TRUE
       /\ UNCHANGED <<carrierDisk, carrierReads>>
  ELSE /\ carrierReads' = carrierReads \cup {batch}
       /\ carrierDisk' = carrierDisk \ Range(batch)
       /\ UNCHANGED <<tempError, tempTimerPending>>

Encode_handleFileChange ==
  /\ EncodeEvent
  /\ \E batch \in Batches(carrierDisk) : selectCarriers(batch, "select")
  /\ UNCHANGED <<hiddenDisk, hiddenReads, files, hiddenFiles, imageTexts, textImageIndices,
                 encryptionKeys, error, success, hiddenImageIndices, isTextModalOpen,
                 resetPending>>

Encode_handleDrop ==
  /\ EncodeEvent
  /\ \E batch \in Batches(carrierDisk) : selectCarriers(batch, "drop")
  /\ UNCHANGED <<hiddenDisk, hiddenReads, files, hiddenFiles, imageTexts, textImageIndices,
                 encryptionKeys, error, success, hiddenImageIndices, isTextModalOpen,
                 resetPending>>

\* lines 144-148 and 200-204
Encode_carrierReadersDone ==
  /\ EncodeEvent
  /\ \E batch \in carrierReads :
       /\ carrierReads' = carrierReads \ {batch}
       /\ files' = files \o batch
       /\ imageTexts' = imageTexts \o [k \in DOMAIN batch |-> None]
       /\ encryptionKeys' = encryptionKeys \o [k \in DOMAIN batch |-> None]
  /\ UNCHANGED <<carrierDisk, hiddenDisk, hiddenReads, hiddenFiles, textImageIndices, error,
                 tempError, success, hiddenImageIndices, isTextModalOpen, tempTimerPending,
                 resetPending>>

\* lines 151-171
Encode_handleHiddenFileChange ==
  /\ EncodeEvent
  /\ \E batch \in Batches(hiddenDisk) :
       IF Len(hiddenFiles) + Len(batch) > MAX_HIDDEN_FILES
       THEN /\ tempError' = "You can only select a maximum of 4 hidden files. You tried to add "
                              \o ToString(Len(hiddenFiles) + Len(batch) - MAX_HIDDEN_FILES) \o "."
            /\ tempTimerPending' = TRUE
            /\ UNCHANGED <<hiddenDisk, hiddenReads>>
       ELSE /\ hiddenReads' = hiddenReads \cup {batch}
            /\ hiddenDisk' = hiddenDisk \ Range(batch)
            /\ UNCHANGED <<tempError, tempTimerPending>>
  /\ UNCHANGED <<carrierDisk, carrierReads, files, hiddenFiles, imageTexts, textImageIndices,
                 encryptionKeys, error, success, hiddenImageIndices, isTextModalOpen,
                 resetPending>>

\* lines 172-175: the files of the batch, and one null
Encode_hiddenReadersDone ==
  /\ EncodeEvent
  /\ \E batch \in hiddenReads :
       /\ hiddenReads' = hiddenReads \ {batch}
       /\ hiddenFiles' = hiddenFiles \o batch
       /\ hiddenImageIndices' = Append(hiddenImageIndices, None)
  /\ UNCHANGED <<carrierDisk, hiddenDisk, carrierReads, files, imageTexts, textImageIndices,
                 encryptionKeys, error, tempError, success, isTextModalOpen, tempTimerPending,
                 resetPending>>

\* reader.onerror = reject: Promise.all(readers) rejects, its then never runs
Encode_readerError ==
  /\ EncodeEvent
  /\ \/ /\ \E batch \in carrierReads : carrierReads' = carrierReads \ {batch}
        /\ UNCHANGED hiddenReads
     \/ /\ \E batch \in hiddenReads : hiddenReads' = hiddenReads \ {batch}
        /\ UNCHANGED carrierReads
  /\ UNCHANGED <<carrierDisk, hiddenDisk, files, hiddenFiles, imageTexts, textImageIndices,
                 encryptionKeys, error, tempError, success, hiddenImageIndices,
                 isTextModalOpen, tempTimerPending, resetPending>>

\* the setTimeout of lines 129, 158, 185 and 234
Encode_tempErrorTimeout ==
  /\ EncodeEvent
  /\ tempTimerPending
  /\ tempError' = ""
  /\ tempTimerPending' = FALSE
  /\ UNCHANGED <<carrierDisk, hiddenDisk, carrierReads, hiddenReads, files, hiddenFiles,
                 imageTexts, textImageIndices, encryptionKeys, error, success,
                 hiddenImageIndices, isTextModalOpen, resetPending>>

\* a slip: the text slots behind the removed carrier are not moved down
Encode_handleRemoveFileNoShift ==
  /\ EncodeEvent
  /\ \E index \in 0..(Len(files) - 1) :
       /\ files' = Remove(files, index + 1)
       /\ imageTexts' = Remove(imageTexts, index + 1)
       /\ encryptionKeys' = Remove(encryptionKeys, index + 1)
       /\ hiddenImageIndices' =
            [k \in DOMAIN hiddenImageIndices |->
               LET idx == hiddenImageIndices[k]
               IN  IF idx = None THEN idx
                   ELSE IF idx[1] > index THEN Some(idx[1] - 1) ELSE idx]
       /\ textImageIndices' = SelectSeq(textImageIndices, LAMBDA i : i # index)
  /\ UNCHANGED <<carrierDisk, hiddenDisk, carrierReads, hiddenReads, hiddenFiles, error,
                 tempError, success, isTextModalOpen, tempTimerPending, resetPending>>

\* lines 211-217
Encode_handleRemoveFile ==
  /\ EncodeEvent
  /\ \E index \in 0..(Len(files) - 1) :
       /\ files' = Remove(files, index + 1)
       /\ imageTexts' = Remove(imageTexts, index + 1)
       /\ encryptionKeys' = Remove(encryptionKeys, index + 1)
       /\ hiddenImageIndices' =
            [k \in DOMAIN hiddenImageIndices |->
               LET idx == hiddenImageIndices[k]
               IN  IF idx = None THEN idx
                   ELSE IF idx[1] > index THEN Some(idx[1] - 1) ELSE idx]
       /\ textImageIndices' =
            LET kept == SelectSeq(textImageIndices, LAMBDA i : i # index)
            IN  [k \in DOMAIN kept |-> IF kept[k] > index THEN kept[k] - 1 ELSE kept[k]]
  /\ UNCHANGED <<carrierDisk, hiddenDisk, carrierReads, hiddenReads, hiddenFiles, error,
                 tempError, success, isTextModalOpen, tempTimerPending, resetPending>>

\* lines 219-222
Encode_handleRemoveHiddenFile ==
  /\ EncodeEvent
  /\ \E index \in 0..(Len(hiddenFiles) - 1) :
       /\ hiddenFiles' = Remove(hiddenFiles, index + 1)
       /\ hiddenImageIndices' =
            IF index + 1 \in DOMAIN hiddenImageIndices
            THEN Remove(hiddenImageIndices, index + 1)
            ELSE hiddenImageIndices
  /\ UNCHANGED <<carrierDisk, hiddenDisk, carrierReads, hiddenReads, files, imageTexts,
                 textImageIndices, encryptionKeys, error, tempError, success,
                 isTextModalOpen, tempTimerPending, resetPending>>

\* lines 224-229; the Select of hidden file hiddenIndex offers the images of
\* getAvailableHiddenImages, and "" when the selection is taken back
Encode_handleImageSelection ==
  /\ EncodeEvent
  /\ \E hiddenIndex \in 0..(Len(hiddenFiles) - 1) :
       \E newIndex \in {None} \cup {Some(index) : index \in getAvailableHiddenImages} :
         hiddenImageIndices' =
           [k \in 1..(IF hiddenIndex + 1 > Len(hiddenImageIndices)
                      THEN hiddenIndex + 1 ELSE Len(hiddenImageIndices)) |->
              IF k = hiddenIndex + 1 THEN newIndex
              ELSE IF k \in DOMAIN hiddenImageIndices THEN hiddenImageIndices[k]
              ELSE Undefined]
  /\ UNCHANGED <<carrierDisk, hiddenDisk, carrierReads, hiddenReads, files, hiddenFiles,
                 imageTexts, textImageIndices, encryptionKeys, error, tempError, success,
                 isTextModalOpen, tempTimerPending, resetPending>>

\* lines 231-238
Encode_handleAddText ==
  /\ EncodeEvent
  /\ IF Len(textImageIndices) >= MAX_TEXTS
     THEN /\ tempError' = "You can only add text to a maximum of 4 images."
          /\ tempTimerPending' = TRUE
          /\ UNCHANGED isTextModalOpen
     ELSE /\ isTextModalOpen' = TRUE
          /\ UNCHANGED <<tempError, tempTimerPending>>
  /\ UNCHANGED <<carrierDisk, hiddenDisk, carrierReads, hiddenReads, files, hiddenFiles,
                 imageTexts, textImageIndices, encryptionKeys, error, success,
                 hiddenImageIndices, resetPending>>

\* the onClose of the Modal
Encode_closeTextModal ==
  /\ EncodeEvent
  /\ isTextModalOpen
  /\ isTextModalOpen' = FALSE
  /\ UNCHANGED <<carrierDisk, hiddenDisk, carrierReads, hiddenReads, files, hiddenFiles,
                 imageTexts, textImageIndices, encryptionKeys, error, tempError, success,
                 hiddenImageIndices, tempTimerPending, resetPending>>

\* lines 240-243; the open Modal has one button per available image
Encode_handleTextImageSelection ==
  /\ EncodeEvent
  /\ isTextModalOpen
  /\ \E index \in getAvailableTextImages :
       textImageIndices' = Append(textImageIndices, index)
  /\ isTextModalOpen' = FALSE
  /\ UNCHANGED <<carrierDisk, hiddenDisk, carrierReads, hiddenReads, files, hiddenFiles,
                 imageTexts, encryptionKeys, error, tempError, success, hiddenImageIndices,
                 tempTimerPending, resetPending>>

\* lines 245-252; there is one Textarea per entry of textImageIndices
Encode_handleTextChange ==
  /\ EncodeEvent
  /\ \E index \in Range(textImageIndices), value \in EncodeTexts :
       /\ imageTexts' = [imageTexts EXCEPT ![index + 1] = IF value = <<>> THEN None ELSE Some(value)]
       /\ textImageIndices' =
            IF value = <<>> THEN SelectSeq(textImageIndices, LAMBDA i : i # index)
            ELSE textImageIndices
  /\ UNCHANGED <<carrierDisk, hiddenDisk, carrierReads, hiddenReads, files, hiddenFiles,
                 encryptionKeys, error, tempError, success, hiddenImageIndices,
                 isTextModalOpen, tempTimerPending, resetPending>>

\* lines 254-259
Encode_handleRemoveText ==
  /\ EncodeEvent
  /\ \E index \in Range(textImageIndices) :
       /\ textImageIndices' = SelectSeq(textImageIndices, LAMBDA i : i # index)
       /\ imageTexts' = [imageTexts EXCEPT ![index + 1] = None]
  /\ UNCHANGED <<carrierDisk, hiddenDisk, carrierReads, hiddenReads, files, hiddenFiles,
                 encryptionKeys, error, tempError, success, hiddenImageIndices,
                 isTextModalOpen, tempTimerPending, resetPending>>

\* lines 261-265; there is one key Input per file
Encode_handleEncryptionChange ==
  /\ EncodeEvent
  /\ \E index \in 0..(Len(files) - 1), value \in EncodeKeys :
       encryptionKeys' =
         [encryptionKeys EXCEPT ![index + 1] = IF value = "" THEN None ELSE Some(value)]
  /\ UNCHANGED <<carrierDisk, hiddenDisk, carrierReads, hiddenReads, files, hiddenFiles,
                 imageTexts, textImageIndices, error, tempError, success, hiddenImageIndices,
                 isTextModalOpen, tempTimerPending, resetPending>>

\* handleSubmit, from a point r of its loop to its next await or its end:
\* lines 328-356 when the loop has ended, line 358 when encryptData threw
continueSubmit(r) ==
  CASE r.status = "awaiting" ->
         /\ encodeJob' = Some(r)
         /\ UNCHANGED <<error, success, resetPending>>
    [] r.status = "threw" ->
         /\ encodeJob' = Some(r)
         /\ error' = "Error processing one of the files: Error: Encryption key is required."
         /\ UNCHANGED <<success, resetPending>>
    [] OTHER ->
         /\ encodeJob' = Some([r EXCEPT !.downloads = downloadsOf(r.encodedImages)])
         /\ success' = "Successfully downloaded all files!"
         /\ resetPending' = TRUE
         /\ UNCHANGED error

\* lines 267-326, up to the first await
Encode_handleSubmit ==
  /\ ~submitInFlight
  /\ IF validationError # ""
     THEN /\ error' = validationError
          /\ encodeJob' = None
          /\ UNCHANGED <<success, resetPending>>
     ELSE continueSubmit(encodeFrom(0, <<>>))
  /\ UNCHANGED <<carrierDisk, hiddenDisk, carrierReads, hiddenReads, files, hiddenFiles,
                 imageTexts, textImageIndices, encryptionKeys, tempError, hiddenImageIndices,
                 isTextModalOpen, tempTimerPending>>
  /\ UNCHANGED <<codecVars, decodeVars>>

\* encodeImageMessage, img.onload (lines 11-58), then lines 319-323 and the
\* rest of handleSubmit up to its next await
Encode_imgOnload ==
  /\ submitInFlight
  /\ LET r == encodeJob[1]
         file == FileOfName(files[r.i + 1])
     IN  /\ file.loads
         /\ continueSubmit(encodeFrom(r.i + 1,
                Append(r.encodedImages,
                       [data |-> encodeImageMessage(file, r.message), index |-> r.i,
                        hiddenFileIndex |-> r.hiddenFileIndex])))
  /\ UNCHANGED <<carrierDisk, hiddenDisk, carrierReads, hiddenReads, files, hiddenFiles,
                 imageTexts, textImageIndices, encryptionKeys, tempError, hiddenImageIndices,
                 isTextModalOpen, tempTimerPending>>
  /\ UNCHANGED <<codecVars, decodeVars>>

\* encodeImageMessage, img.onerror (line 60), then the catch of line 357
Encode_imgOnerror ==
  /\ submitInFlight
  /\ ~FileOfName(files[encodeJob[1].i + 1]).loads
  /\ encodeJob' = Some([encodeJob[1] EXCEPT !.status = "rejected"])
  /\ error' = "Error processing one of the files: Failed to load image."
  /\ UNCHANGED <<carrierDisk, hiddenDisk, carrierReads, hiddenReads, files, hiddenFiles,
                 imageTexts, textImageIndices, encryptionKeys, tempError, success,
                 hiddenImageIndices, isTextModalOpen, tempTimerPending, resetPending>>
  /\ UNCHANGED <<codecVars, decodeVars>>

\* lines 344-356, two seconds after the downloads
Encode_resetTimeout ==
  /\ EncodeEvent
  /\ resetPending
  /\ resetPending' = FALSE
  /\ files' = <<>> /\ hiddenFiles' = <<>> /\ imageTexts' = <<>> /\ encryptionKeys' = <<>>
  /\ error' = "" /\ success' = ""
  /\ hiddenImageIndices' = <<>> /\ textImageIndices' = <<>>
  /\ UNCHANGED <<carrierDisk, hiddenDisk, carrierReads, hiddenReads, tempError,
                 isTextModalOpen, tempTimerPending>>

\* With the files of EncodeFileNames and EncodeHiddenFiles no limit is ever
\* exceeded, so tempError stays "" and Encode_tempErrorTimeout has nothing to do.
NextEncode ==
  \/ Encode_handleFileChange
  \/ Encode_handleDrop
  \/ Encode_carrierReadersDone
  \/ Encode_handleHiddenFileChange
  \/ Encode_hiddenReadersDone
  \/ Encode_readerError
  \/ Encode_handleRemoveFile
  \/ Encode_handleRemoveHiddenFile
  \/ Encode_handleImageSelection
  \/ Encode_handleAddText
  \/ Encode_closeTextModal
  \/ Encode_handleTextImageSelection
  \/ Encode_handleTextChange
  \/ Encode_handleRemoveText
  \/ Encode_handleEncryptionChange
  \/ Encode_handleSubmit
  \/ Encode_imgOnload
  \/ Encode_imgOnerror
  \/ Encode_resetTimeout

SpecEncode == InitEncode /\ [][NextEncode]_vars

(***************************************************************************)
(* Properties of the Encode component.                                     *)
(***************************************************************************)
\* the carriers (0-based) this handleSubmit has passed to encodeImageMessage
writtenCarriers(r) ==
  {r.encodedImages[k].index : k \in DOMAIN r.encodedImages}
    \cup (IF r.status \in {"awaiting", "rejected"} THEN {r.i} ELSE {})

\* carrier index (0-based) has a text or a hidden file assigned
hasContentAssigned(index) ==
  \/ imageTexts[index + 1] # None
  \/ \E k \in DOMAIN hiddenImageIndices : hiddenImageIndices[k] = Some(index)

\* carrier index (0-based) has no key
lacksKey(index) ==
  IF encryptionKeys[index + 1] = None THEN TRUE ELSE encryptionKeys[index + 1][1] = ""

\* C7: when encodeImageMessage fails for one carrier of a submitted batch,
\* only that carrier is dropped: every other carrier of the batch is still
\* encoded and downloaded.
C7_OnlyFailingCarrierDropped ==
  IF encodeJob = None THEN TRUE
  ELSE LET r == encodeJob[1]
       IN  r.status = "rejected" =>
             \A index \in 0..(Len(files) - 1) :
               index # r.i =>
                 /\ Len(r.downloads) = Len(files)
                 /\ r.downloads[index + 1].download # "image_" \o ToString(index + 1) \o ".png"

\* C9: a handleSubmit clicked while a carrier that has content assigned has
\* no key reports a validation error and does nothing else: no carrier is
\* passed to encodeImageMessage, nothing is downloaded, and the form state
\* is as it was.
C9_MissingKeyBlocksSubmit ==
  [][ (Encode_handleSubmit
         /\ \E index \in 0..(Len(files) - 1) : hasContentAssigned(index) /\ lacksKey(index))
      => /\ encodeJob' = None
         /\ \/ error' = "Please select an image for each hidden file."
            \/ \E n \in DOMAIN files :
                 error' = "Please assign an encryption key to Image " \o ToString(n) \o "."
         /\ UNCHANGED <<files, hiddenFiles, imageTexts, textImageIndices, encryptionKeys,
                        hiddenImageIndices, success, resetPending>> ]_vars

\* handleSubmit has just refused a batch whose first carrier has a text and no key
C9_Witness ==
  /\ error = "Please assign an encryption key to Image 1."
  /\ encodeJob = None
  /\ Len(files) > 0
  /\ hasContentAssigned(0) /\ lacksKey(0)
  /\ ~resetPending

\* C10: every carrier handleSubmit passes to encodeImageMessage has a
\* non-empty key and has a text or a hidden image assigned.
C10_WrittenHaveKeyAndContent ==
  IF encodeJob = None THEN TRUE
  ELSE \A index \in writtenCarriers(encodeJob[1]) :
         /\ ~lacksKey(index)
         /\ hasContentAssigned(index)

\* a handleSubmit has passed two carriers to encodeImageMessage, and the
\* first of them is encoded
C10_Witness ==
  IF encodeJob = None THEN FALSE
  ELSE /\ encodeJob[1].status \in {"awaiting", "rejected"}
       /\ Len(encodeJob[1].encodedImages) = 1
       /\ Cardinality(writtenCarriers(encodeJob[1])) = 2

(***************************************************************************)
(* Picking carriers only (SpecLimits): five files at hand, in the Decode   *)
(* page or in the Encode page, and a user who selects and drops files      *)
(* while earlier FileReader batches may still be running.                  *)
(***************************************************************************)
LimitFileNames == {"f1.png", "f2.png", "f3.png", "f4.png", "f5.png"}

InitLimits ==
  /\ stage = "off" /\ carrier = OtherFile
  /\ payloadText = None /\ payloadImage = None /\ encKey = None
  /\ message = <<>> /\ dataIn = <<>> /\ dataOut = <<>>
  /\ encoded = OtherFile /\ decKey = "" /\ outcome = None
  /\ reads = {} /\ images = <<>> /\ decodedData = <<>>
  /\ confirmation = "" /\ timerPending = FALSE /\ job = None
  /\ \/ disk = LimitFileNames /\ EncodeStart({}, {})
     \/ disk = {} /\ EncodeStart(LimitFileNames, {})

NextLimits ==
  \/ Decode_handleFileChange
  \/ Decode_handleDrop
  \/ Decode_readersDone
  \/ Decode_readerError
  \/ Decode_confirmationTimeout
  \/ Encode_handleFileChange
  \/ Encode_handleDrop
  \/ Encode_carrierReadersDone
  \/ Encode_readerError
  \/ Encode_tempErrorTimeout

SpecLimits == InitLimits /\ [][NextLimits]_vars

\* C18: there are never more than 4 carriers: files.length <= 4 in the
\* encoder and images.length <= 4 in the decoder, in every reachable state.
C18_AtMostFourCarriers == Len(files) <= 4 /\ Len(images) <= 4

\* the names encoded_hidden_<N>.png and encoded_text_<N>.png
EncodedHiddenNames == {"encoded_hidden_" \o ToString(n) \o ".png" : n \in 1..4}
EncodedTextNames == {"encoded_text_" \o ToString(n) \o ".png" : n \in 1..4}

\* a hidden file is assigned to carrier index (0-based), so its frame holds
\* a nested image
nestedImageEmbedded(index) ==
  \E k \in DOMAIN hiddenImageIndices :
    hiddenImageIndices[k] = Some(index) /\ k \in DOMAIN hiddenFiles

\* C22: in a submit that has downloaded, the download of every encoded
\* carrier is named encoded_hidden_<N>.png when a nested image was embedded
\* in the carrier, and encoded_text_<N>.png when not.
C22_DownloadNames ==
  IF encodeJob = None THEN TRUE
  ELSE LET r == encodeJob[1]
       IN  r.status = "done" =>
             /\ Len(r.downloads) = Len(files)
             /\ \A k \in DOMAIN r.encodedImages :
                  LET index == r.encodedImages[k].index
                      name == r.downloads[index + 1].download
                  IN  IF nestedImageEmbedded(index)
                      THEN name \in EncodedHiddenNames
                      ELSE name \in EncodedTextNames

\* a submit has downloaded a carrier with a text and a nested image
C22_Witness ==
  IF encodeJob = None THEN FALSE
  ELSE /\ encodeJob[1].status = "done"
       /\ Len(encodeJob[1].encodedImages) = 1
       /\ nestedImageEmbedded(0)
       /\ imageTexts[1] # None
       /\ encodeJob[1].downloads[1].download = "encoded_hidden_1.png"

(***************************************************************************)
(* The bookkeeping of hidden files (SpecAssign): two carriers that load    *)
(* and two hidden files, picked one at a time or both at once, assigned,   *)
(* removed and submitted.  No text is typed.                               *)
(***************************************************************************)
AssignFileNames == {"plain.png", "white.png"}
AssignHiddenFiles == {HiddenPng, HiddenGif}

InitAssign ==
  /\ stage = "off" /\ carrier = OtherFile
  /\ payloadText = None /\ payloadImage = None /\ encKey = None
  /\ message = <<>> /\ dataIn = <<>> /\ dataOut = <<>>
  /\ encoded = OtherFile /\ decKey = "" /\ outcome = None
  /\ disk = {} /\ reads = {} /\ images = <<>> /\ decodedData = <<>>
  /\ confirmation = "" /\ timerPending = FALSE /\ job = None
  /\ EncodeStart(AssignFileNames, AssignHiddenFiles)

NextAssign ==
  \/ Encode_handleFileChange
  \/ Encode_carrierReadersDone
  \/ Encode_handleHiddenFileChange
  \/ Encode_hiddenReadersDone
  \/ Encode_handleRemoveFile
  \/ Encode_handleRemoveHiddenFile
  \/ Encode_handleImageSelection
  \/ Encode_handleEncryptionChange
  \/ Encode_handleSubmit
  \/ Encode_imgOnload
  \/ Encode_resetTimeout

SpecAssign == InitAssign /\ [][NextAssign]_vars

\* an entry of hiddenImageIndices that names a carrier
assigned(idx) == idx # None /\ idx # Undefined

\* C27: hiddenFiles and hiddenImageIndices have the same length in every
\* reachable state, so that hiddenImageIndices[i] is the assignment of
\* hiddenFiles[i].
C27_SameLength == Len(hiddenFiles) = Len(hiddenImageIndices)

\* C28: no two hidden files are assigned to the same carrier.
C28_AssignmentsDistinct ==
  \A k, l \in DOMAIN hiddenImageIndices :
    (k # l /\ assigned(hiddenImageIndices[k])) => hiddenImageIndices[k] # hiddenImageIndices[l]

\* the step is handleRemoveFile(k)
removesCarrier(k) ==
  /\ k + 1 \in DOMAIN files
  /\ files' = Remove(files, k + 1)
  /\ hiddenFiles' = hiddenFiles
  /\ DOMAIN hiddenImageIndices' = DOMAIN hiddenImageIndices
  /\ ~resetPending

\* C25: after handleRemoveFile(k) a hidden file that was assigned to carrier
\* k is assigned to no carrier, a hidden file assigned to another carrier is
\* still assigned to that carrier (now at its new position), and every
\* assignment is smaller than files.length.
C25_RemovalKeepsAssignments ==
  [][\A k \in 0..(Len(files) - 1) :
       removesCarrier(k) =>
         \A h \in DOMAIN hiddenImageIndices :
           LET idx == hiddenImageIndices[h]
               after == hiddenImageIndices'[h]
           IN  /\ (assigned(idx) /\ idx[1] = k) => ~assigned(after)
               /\ (assigned(idx) /\ idx[1] < k) => after = idx
               /\ (assigned(idx) /\ idx[1] > k) => after = Some(idx[1] - 1)
               /\ assigned(after) => after[1] < Len(files')]_vars

\* C26: when a submit that passed validation has downloaded, every hidden
\* file of hiddenFiles is embedded in exactly one carrier.
C26_EveryHiddenFileEmbedded ==
  IF encodeJob = None THEN TRUE
  ELSE LET r == encodeJob[1]
       IN  r.status = "done" =>
             \A h \in DOMAIN hiddenFiles :
               Cardinality({k \in DOMAIN r.encodedImages :
                              r.encodedImages[k].hiddenFileIndex = h - 1}) = 1

\* files, imageTexts and encryptionKeys have one entry per carrier
Aligned == Len(imageTexts) = Len(files) /\ Len(encryptionKeys) = Len(files)

\* C29: files, imageTexts and encryptionKeys have the same length in every
\* reachable state, and after handleRemoveFile(k) every remaining carrier has
\* the key and the text it had, and is in textImageIndices exactly when it was.
C29_CarriersStayAligned ==
  /\ []Aligned
  /\ [][\A k \in 0..(Len(files) - 1) :
          removesCarrier(k) =>
            \A i \in (0..(Len(files) - 1)) \ {k} :
              LET moved == IF i > k THEN i - 1 ELSE i
              IN  /\ encryptionKeys'[moved + 1] = encryptionKeys[i + 1]
                  /\ imageTexts'[moved + 1] = imageTexts[i + 1]
                  /\ (moved \in Range(textImageIndices')) <=> (i \in Range(textImageIndices))]_vars

\* a state that handleRemoveFile(0) leaves behind: plain.png is gone and
\* broken.png, now Image 1, has a key, a text and the text slot 0
C29_Witness ==
  /\ files = <<"broken.png">> /\ carrierDisk = {} /\ carrierReads = {}
  /\ encryptionKeys = <<Some("secret")>>
  /\ imageTexts = <<Some(TextHello)>>
  /\ textImageIndices = <<0>>

\* C30: a text is non-empty only in a text slot, and when a submit that
\* passed validation has downloaded, every carrier that is an image was given
\* a frame and is downloaded encoded, none as image_<N>.png.
C30_ContentAgrees ==
  /\ \A index \in DOMAIN imageTexts :
       truthy(imageTexts[index]) => (index - 1) \in Range(textImageIndices)
  /\ IF encodeJob = None THEN TRUE
     ELSE LET r == encodeJob[1]
          IN  r.status = "done" =>
                \A index \in DOMAIN files :
                  FileOfName(files[index]).isImage =>
                    /\ \E k \in DOMAIN r.encodedImages : r.encodedImages[k].index = index - 1
                    /\ r.downloads[index].download # "image_" \o ToString(index) \o ".png"

\* a submit has downloaded a carrier whose only content is a text
C30_Witness ==
  IF encodeJob = None THEN FALSE
  ELSE /\ encodeJob[1].status = "done"
       /\ Len(files) = 1
       /\ truthy(imageTexts[1]) /\ hiddenImageIndices = <<>>
       /\ encodeJob[1].downloads[1].download = "encoded_text_1.png"

(***************************************************************************)
(* Submits of two carriers that load (SpecBatch): texts and one hidden     *)
(* file are given to plain.png and white.png, so that a batch can hold a   *)
(* text carrier and a hidden-image carrier.  Nothing fails to load.        *)
(***************************************************************************)
BatchFileNames == {"plain.png", "white.png"}

InitBatch ==
  /\ stage = "off" /\ carrier = OtherFile
  /\ payloadText = None /\ payloadImage = None /\ encKey = None
  /\ message = <<>> /\ dataIn = <<>> /\ dataOut = <<>>
  /\ encoded = OtherFile /\ decKey = "" /\ outcome = None
  /\ disk = {} /\ reads = {} /\ images = <<>> /\ decodedData = <<>>
  /\ confirmation = "" /\ timerPending = FALSE /\ job = None
  /\ EncodeStart(BatchFileNames, EncodeHiddenFiles)

NextBatch ==
  \/ Encode_handleFileChange
  \/ Encode_carrierReadersDone
  \/ Encode_handleHiddenFileChange
  \/ Encode_hiddenReadersDone
  \/ Encode_handleRemoveFile
  \/ Encode_handleRemoveHiddenFile
  \/ Encode_handleImageSelection
  \/ Encode_handleAddText
  \/ Encode_closeTextModal
  \/ Encode_handleTextImageSelection
  \/ Encode_handleTextChange
  \/ Encode_handleRemoveText
  \/ Encode_handleEncryptionChange
  \/ Encode_handleSubmit
  \/ Encode_imgOnload
  \/ Encode_resetTimeout

SpecBatch == InitBatch /\ [][NextBatch]_vars

\* C31: when a submit has downloaded, there is one download per carrier,
\* each with the carrier's own content (its encoded version, or the file as
\* it is), and no two downloads of the batch have the same filename.
C31_DownloadsDistinct ==
  IF encodeJob = None THEN TRUE
  ELSE LET r == encodeJob[1]
       IN  r.status = "done" =>
             /\ DOMAIN r.downloads = DOMAIN files
             /\ \A index \in DOMAIN files :
                  \/ r.downloads[index].href = FileOfName(files[index])
                  \/ \E k \in DOMAIN r.encodedImages :
                       /\ r.encodedImages[k].index = index - 1
                       /\ r.downloads[index].href = r.encodedImages[k].data
             /\ \A i, j \in DOMAIN r.downloads :
                  i # j => r.downloads[i].download # r.downloads[j].download

\* a submit has downloaded a text carrier and a hidden-image carrier that
\* carry the same number in their names
C31_Witness ==
  IF encodeJob = None THEN FALSE
  ELSE /\ encodeJob[1].status = "done"
       /\ Len(files) = 2
       /\ encodeJob[1].downloads[1].download = "encoded_text_1.png"
       /\ encodeJob[1].downloads[2].download = "encoded_hidden_1.png"
====
